---- MODULE Spec2Model ----
(***************************************************************************)
(* Vehicle service center API (src/server.js): the JSON document store,    *)
(* the session token, and the request handlers that read the whole         *)
(* document, change it in memory and write it back.                        *)
(*                                                                         *)
(* Spec      runs every handler as one step (one request at a time).       *)
(* SpecConc  splits the mutating handlers at their two awaits (readDB and  *)
(*           writeDB), so that two requests can interleave.                *)
(***************************************************************************)
EXTENDS Integers, Sequences, FiniteSets, TLC

VARIABLES
  db,         \* the document in db.json: [users, jobCards, parts]
  session,    \* payload of the bearer token the client holds, or NoToken
  uuidCount,  \* how many identifiers randomUUID() has handed out
  resp,       \* the last response sent: [op, code, msg]
  logged,     \* history: the quantities of the successful log-part calls per <<job id, part id>>
  inflight,   \* SpecConc: per request slot, the handler's position and locals
  lastWrite,  \* SpecConc: the slot whose writeDB landed last, 0 before the first
  started     \* SpecConc: how many requests have reached readDB

vars == <<db, session, uuidCount, resp, logged, inflight, lastWrite, started>>

----------------------------------------------------------------------------
(* Bounds of the model *)

\* identifiers randomUUID() may hand out in one run (users + job cards)
MaxUUID == 2
\* the clock readings new Date() may return are 1..MaxTime
MaxTime == 1
\* quantity of the first part in the seeded inventory
InitStock == 2
\* requests that reach readDB in one run of the interleaved specification
MaxRequests == 4

----------------------------------------------------------------------------
(* Values *)

\* JavaScript null (assignedMechanicId of a new job card)
Null == 0
\* an absent property (dispatchedDate before the first dispatch)
NoDate == 0
\* a request body field that was not sent (undefined)
Undefined == "<undefined>"
\* no Authorization header
NoToken == [userId |-> Null, username |-> "", role |-> "", fullName |-> ""]

\* JavaScript truthiness of a string-or-undefined value: "" and undefined are falsy
Falsy(v) == v = "" \/ v = Undefined

\* the users db.json is seeded with: an admin (register cannot create one), a
\* mechanic and a customer
AdminId == 100
SeedUser(n, username, password, fullName, role) ==
  [id |-> AdminId + n, username |-> username, password |-> password,
   fullName |-> fullName, mobile |-> "900", role |-> role]
SeedUsers ==
  << SeedUser(0, "admin", "admin123", "Admin", "admin"),
     SeedUser(1, "mech1", "pw", "Mia", "mechanic"),
     SeedUser(2, "cust1", "pw", "Cal", "customer") >>

PartIds == {"p1", "p2"}

\* the seeded document: the seeded users, no job cards, two parts in stock
SeedDB ==
  [users    |-> SeedUsers,
   jobCards |-> <<>>,
   parts    |-> << [id |-> "p1", partName |-> "Filter", quantity |-> InitStock],
                   [id |-> "p2", partName |-> "Oil", quantity |-> 1] >>]

\* variant: an identifier source that hands out the same value again
RepeatedUUID(n) == 1

\* randomUUID(): the n-th identifier handed out; never repeats
randomUUID(n) == n + 1

Times == 1..MaxTime

----------------------------------------------------------------------------
(* Lookups: Array.prototype.find returns the first match *)

\* the least index among the matching ones, 0 when there is none
FirstIndex(matching) ==
  IF matching = {} THEN 0 ELSE CHOOSE i \in matching : \A k \in matching : i <= k

FindJob(d, id) == FirstIndex({i \in 1..Len(d.jobCards) : d.jobCards[i].id = id})
FindPart(d, partId) == FirstIndex({i \in 1..Len(d.parts) : d.parts[i].id = partId})
FindUserByName(d, username) ==
  FirstIndex({i \in 1..Len(d.users) : d.users[i].username = username})
\* variant: the role of the user found is not looked at
FindAnyUser(d, mechanicId) ==
  FirstIndex({i \in 1..Len(d.users) : d.users[i].id = mechanicId})

FindMechanic(d, mechanicId) ==
  FirstIndex({i \in 1..Len(d.users) :
                d.users[i].id = mechanicId /\ d.users[i].role = "mechanic"})
FindPartLog(job, partId) ==
  FirstIndex({i \in 1..Len(job.partsUsed) : job.partsUsed[i].partId = partId})

----------------------------------------------------------------------------
(* parseInt(text, 10) on a text given as a sequence of characters *)

Digits == {"0", "1", "2", "3", "4", "5", "6", "7", "8", "9"}
DigitVal(c) ==
  CASE c = "0" -> 0 [] c = "1" -> 1 [] c = "2" -> 2 [] c = "3" -> 3 [] c = "4" -> 4
    [] c = "5" -> 5 [] c = "6" -> 6 [] c = "7" -> 7 [] c = "8" -> 8 [] c = "9" -> 9

RECURSIVE SkipSpace(_)
SkipSpace(s) == IF s # <<>> /\ Head(s) = " " THEN SkipSpace(Tail(s)) ELSE s

\* value of the longest prefix of digits of s, continuing from acc
RECURSIVE DigitRun(_, _)
DigitRun(s, acc) ==
  IF s # <<>> /\ Head(s) \in Digits
    THEN DigitRun(Tail(s), 10 * acc + DigitVal(Head(s)))
    ELSE acc

\* [nan |-> TRUE] when no digit follows the optional sign, else the integer
parseInt(text) ==
  LET s    == SkipSpace(text)
      neg  == s # <<>> /\ Head(s) = "-"
      body == IF s # <<>> /\ Head(s) \in {"-", "+"} THEN Tail(s) ELSE s
  IN  IF body = <<>> \/ Head(body) \notin Digits
        THEN [nan |-> TRUE, n |-> 0]
        ELSE [nan |-> FALSE, n |-> IF neg THEN 0 - DigitRun(body, 0) ELSE DigitRun(body, 0)]

----------------------------------------------------------------------------
(* Middleware *)

\* variant: checkRole lets every logged-in session through
AuthAnyRole(tok, roles) == IF tok = NoToken THEN 401 ELSE 0

\* authMiddleware then checkRole(roles): 0 when the request may proceed
Auth(tok, roles) ==
  IF tok = NoToken THEN 401
  ELSE IF tok.role \notin roles THEN 403
  ELSE 0

Reply(code, msg, d) == [code |-> code, msg |-> msg, db |-> d]

----------------------------------------------------------------------------
(* Response messages of the handlers *)

MsgNoToken == "Access denied. No token provided."
MsgRole == "Forbidden. You do not have the required permissions."
MsgCredentials == "Invalid credentials."
MsgLoginRequired == "Username and password are required."
MsgMissingFields == "Missing required fields."
MsgNoAdmins == "Cannot register new admins."
MsgUserExists == "Username already exists."
MsgJobNotFound == "Job card not found."
MsgMechanicNotFound == "Mechanic not found."
MsgNotAssigned == "You are not assigned to this job."
MsgPartInput == "Valid Part ID and positive quantity are required."
MsgPartNotFound == "Part not found in inventory."
MsgNoStock == "Not enough stock"
MsgBadStatus == "Invalid or missing status."
MsgRequestInput == "Vehicle number plate and issue description are required."
MsgOK == "ok"

\* the reply of authMiddleware / checkRole when they stop the request
Denied(code, d) == Reply(code, IF code = 401 THEN MsgNoToken ELSE MsgRole, d)

----------------------------------------------------------------------------
(* POST /api/auth/login *)

TokenOf(user) ==
  [userId |-> user.id, username |-> user.username, role |-> user.role,
   fullName |-> user.fullName]

\* [code, msg, token]: the token is NoToken unless the login succeeds
Login(d, username, password) ==
  IF Falsy(username) \/ Falsy(password)
    THEN [code |-> 400, msg |-> MsgLoginRequired, token |-> NoToken]
  ELSE LET i == FindUserByName(d, username) IN
    IF i = 0 THEN [code |-> 401, msg |-> MsgCredentials, token |-> NoToken]
    ELSE IF d.users[i].password # password
      THEN [code |-> 401, msg |-> MsgCredentials, token |-> NoToken]
    ELSE [code |-> 200, msg |-> MsgOK, token |-> TokenOf(d.users[i])]

----------------------------------------------------------------------------
(* POST /api/auth/register *)

RegisterMissing(body) ==
  Falsy(body.username) \/ Falsy(body.password) \/ Falsy(body.fullName)
    \/ Falsy(body.role) \/ Falsy(body.mobile)

RoleRefused(role) == role = "admin"

NewUser(body, uuid) ==
  [id |-> uuid, username |-> body.username, password |-> body.password,
   fullName |-> body.fullName, mobile |-> body.mobile, role |-> body.role]

\* variant: the stored usernames are not looked at
RegisterNoNameCheck(d, tok, body, uuid) ==
  LET a == Auth(tok, {"admin"}) IN
  IF a # 0 THEN Denied(a, d)
  ELSE IF RegisterMissing(body) THEN Reply(400, MsgMissingFields, d)
  ELSE IF RoleRefused(body.role) THEN Reply(403, MsgNoAdmins, d)
  ELSE Reply(201, MsgOK, [d EXCEPT !.users = Append(@, NewUser(body, uuid))])

Register(d, tok, body, uuid) ==
  LET a == Auth(tok, {"admin"}) IN
  IF a # 0 THEN Denied(a, d)
  ELSE IF RegisterMissing(body) THEN Reply(400, MsgMissingFields, d)
  ELSE IF RoleRefused(body.role) THEN Reply(403, MsgNoAdmins, d)
  ELSE IF FindUserByName(d, body.username) # 0 THEN Reply(409, MsgUserExists, d)
  ELSE Reply(201, MsgOK, [d EXCEPT !.users = Append(@, NewUser(body, uuid))])

----------------------------------------------------------------------------
(* PUT /api/admin/jobcards/:id/assign *)

\* variant: the assignee is stored, the status is left as it was
AssignJobKeepStatus(job, mechanicId) == [job EXCEPT !.assignedMechanicId = mechanicId]

AssignJob(job, mechanicId) ==
  [job EXCEPT !.assignedMechanicId = mechanicId, !.status = "Assigned"]

\* variant: a job card that already has an assignee is not assigned again
AssignOnce(d, tok, id, mechanicId) ==
  LET a == Auth(tok, {"admin"})
      j == FindJob(d, id)
  IN
  IF a # 0 THEN Denied(a, d)
  ELSE IF j = 0 THEN Reply(404, MsgJobNotFound, d)
  ELSE IF FindMechanic(d, mechanicId) = 0 THEN Reply(404, MsgMechanicNotFound, d)
  ELSE IF d.jobCards[j].assignedMechanicId # Null THEN Reply(400, MsgJobNotFound, d)
  ELSE Reply(200, MsgOK, [d EXCEPT !.jobCards[j] = AssignJob(@, mechanicId)])

Assign(d, tok, id, mechanicId) ==
  LET a == Auth(tok, {"admin"})
      j == FindJob(d, id)
  IN
  IF a # 0 THEN Denied(a, d)
  ELSE IF j = 0 THEN Reply(404, MsgJobNotFound, d)
  ELSE IF FindMechanic(d, mechanicId) = 0 THEN Reply(404, MsgMechanicNotFound, d)
  ELSE Reply(200, MsgOK, [d EXCEPT !.jobCards[j] = AssignJob(@, mechanicId)])

----------------------------------------------------------------------------
(* PUT /api/mechanic/jobs/:id/log-part *)

\* the validation of line 347: !partId || !qty || qty <= 0
PartInputInvalid(partId, qty) == Falsy(partId) \/ qty.nan \/ qty.n = 0 \/ qty.n <= 0

\* variant: the security check is left out
NotAssignedSkipped(job, tok) == FALSE

\* variant: the check only asks whether the job has an assignee at all
NotAssignedToAnyone(job, tok) == job.assignedMechanicId = Null

\* the security check shared by log-part and status
NotAssignedTo(job, tok) == job.assignedMechanicId # tok.userId

\* variant: the check off by one, a request for one more than is left passes
OutOfStockOffByOne(part, qty) == part.quantity + 1 < qty

OutOfStock(part, qty) == part.quantity < qty

\* variant: one unit is taken whatever the quantity logged
DecreaseStockByOne(part, qty) == [part EXCEPT !.quantity = @ - 1]

DecreaseStock(part, qty) == [part EXCEPT !.quantity = @ - qty]

\* variant: every call pushes a new entry, an existing one is not looked for
LogPartInJobAlwaysPush(job, part, qty) ==
  [job EXCEPT !.partsUsed =
     Append(@, [partId |-> part.id, partName |-> part.partName, quantity |-> qty])]

\* variant: an existing entry is set to the quantity logged, not raised by it
LogPartInJobOverwrite(job, part, qty) ==
  LET k == FindPartLog(job, part.id) IN
  IF k # 0
    THEN [job EXCEPT !.partsUsed[k].quantity = qty]
    ELSE [job EXCEPT !.partsUsed =
            Append(@, [partId |-> part.id, partName |-> part.partName, quantity |-> qty])]

\* the job card with qty of the part logged: an existing entry grows, else a new one
LogPartInJob(job, part, qty) ==
  LET k == FindPartLog(job, part.id) IN
  IF k # 0
    THEN [job EXCEPT !.partsUsed[k].quantity = @ + qty]
    ELSE [job EXCEPT !.partsUsed =
            Append(@, [partId |-> part.id, partName |-> part.partName, quantity |-> qty])]

\* variant: the part is looked up and its stock compared before the job card
LogPartPartLookupFirst(d, tok, id, partId, quantityUsed) ==
  LET a   == Auth(tok, {"mechanic"})
      qty == parseInt(quantityUsed)
      j   == FindJob(d, id)
      p   == FindPart(d, partId)
  IN
  IF a # 0 THEN Denied(a, d)
  ELSE IF PartInputInvalid(partId, qty) THEN Reply(400, MsgPartInput, d)
  ELSE IF p = 0 THEN Reply(404, MsgPartNotFound, d)
  ELSE IF OutOfStock(d.parts[p], qty.n) THEN Reply(400, MsgNoStock, d)
  ELSE IF j = 0 THEN Reply(404, MsgJobNotFound, d)
  ELSE IF NotAssignedTo(d.jobCards[j], tok) THEN Reply(403, MsgNotAssigned, d)
  ELSE Reply(200, MsgOK,
         [d EXCEPT !.parts[p] = DecreaseStock(@, qty.n),
                   !.jobCards[j] = LogPartInJob(@, d.parts[p], qty.n)])

\* variant: the stock is taken from the first part of the inventory, whichever
\* part was found
LogPartFirstPart(d, tok, id, partId, quantityUsed) ==
  LET a   == Auth(tok, {"mechanic"})
      qty == parseInt(quantityUsed)
      j   == FindJob(d, id)
      p   == FindPart(d, partId)
  IN
  IF a # 0 THEN Denied(a, d)
  ELSE IF PartInputInvalid(partId, qty) THEN Reply(400, MsgPartInput, d)
  ELSE IF j = 0 THEN Reply(404, MsgJobNotFound, d)
  ELSE IF NotAssignedTo(d.jobCards[j], tok) THEN Reply(403, MsgNotAssigned, d)
  ELSE IF p = 0 THEN Reply(404, MsgPartNotFound, d)
  ELSE IF OutOfStock(d.parts[p], qty.n) THEN Reply(400, MsgNoStock, d)
  ELSE Reply(200, MsgOK,
         [d EXCEPT !.parts[1] = DecreaseStock(@, qty.n),
                   !.jobCards[j] = LogPartInJob(@, d.parts[p], qty.n)])

LogPart(d, tok, id, partId, quantityUsed) ==
  LET a   == Auth(tok, {"mechanic"})
      qty == parseInt(quantityUsed)
      j   == FindJob(d, id)
      p   == FindPart(d, partId)
  IN
  IF a # 0 THEN Denied(a, d)
  ELSE IF PartInputInvalid(partId, qty) THEN Reply(400, MsgPartInput, d)
  ELSE IF j = 0 THEN Reply(404, MsgJobNotFound, d)
  ELSE IF NotAssignedTo(d.jobCards[j], tok) THEN Reply(403, MsgNotAssigned, d)
  ELSE IF p = 0 THEN Reply(404, MsgPartNotFound, d)
  ELSE IF OutOfStock(d.parts[p], qty.n) THEN Reply(400, MsgNoStock, d)
  ELSE Reply(200, MsgOK,
         [d EXCEPT !.parts[p] = DecreaseStock(@, qty.n),
                   !.jobCards[j] = LogPartInJob(@, d.parts[p], qty.n)])

----------------------------------------------------------------------------
(* PUT /api/mechanic/jobs/:id/status *)

validStatuses == {"In Progress", "Ready for Dispatch", "Dispatched"}

\* variant: Pending is accepted as a status to set
StatusInvalidButPending(status) ==
  Falsy(status) \/ status \notin (validStatuses \cup {"Pending"})

\* variant: only a missing status is refused
StatusMissing(status) == Falsy(status)

StatusInvalid(status) == Falsy(status) \/ status \notin validStatuses

\* variant: a forward-only rule, a status earlier in the lifecycle is ignored
StatusRank(status) ==
  CASE status = "Pending" -> 0 [] status = "Assigned" -> 1 [] status = "In Progress" -> 2
    [] status = "Ready for Dispatch" -> 3 [] status = "Dispatched" -> 4
SetStatusForwardOnly(job, status, now) ==
  IF StatusRank(status) < StatusRank(job.status) THEN job
  ELSE IF status = "Dispatched"
    THEN [job EXCEPT !.status = status, !.dispatchedDate = now]
    ELSE [job EXCEPT !.status = status]

\* variant: the dispatch date is never stamped
SetStatusNoStamp(job, status, now) == [job EXCEPT !.status = status]

\* variant: every status update stamps the dispatch date
SetStatusStampAlways(job, status, now) ==
  [job EXCEPT !.status = status, !.dispatchedDate = now]

SetStatus(job, status, now) ==
  IF status = "Dispatched"
    THEN [job EXCEPT !.status = status, !.dispatchedDate = now]
    ELSE [job EXCEPT !.status = status]

\* variant: the status is set on every job card assigned to the caller
UpdateStatusAllMine(d, tok, id, status, now) ==
  LET a == Auth(tok, {"mechanic"})
      j == FindJob(d, id)
  IN
  IF a # 0 THEN Denied(a, d)
  ELSE IF StatusInvalid(status) THEN Reply(400, MsgBadStatus, d)
  ELSE IF j = 0 THEN Reply(404, MsgJobNotFound, d)
  ELSE IF NotAssignedTo(d.jobCards[j], tok) THEN Reply(403, MsgNotAssigned, d)
  ELSE Reply(200, MsgOK,
         [d EXCEPT !.jobCards =
            [k \in 1..Len(d.jobCards) |->
               IF NotAssignedTo(d.jobCards[k], tok) THEN d.jobCards[k]
               ELSE SetStatus(d.jobCards[k], status, now)]])

UpdateStatus(d, tok, id, status, now) ==
  LET a == Auth(tok, {"mechanic"})
      j == FindJob(d, id)
  IN
  IF a # 0 THEN Denied(a, d)
  ELSE IF StatusInvalid(status) THEN Reply(400, MsgBadStatus, d)
  ELSE IF j = 0 THEN Reply(404, MsgJobNotFound, d)
  ELSE IF NotAssignedTo(d.jobCards[j], tok) THEN Reply(403, MsgNotAssigned, d)
  ELSE Reply(200, MsgOK, [d EXCEPT !.jobCards[j] = SetStatus(@, status, now)])

----------------------------------------------------------------------------
(* POST /api/customer/request-service *)

RequestInvalid(vehicleNumberPlate, issueDescription) ==
  Falsy(vehicleNumberPlate) \/ Falsy(issueDescription)

NewJobCard(tok, vehicleNumberPlate, issueDescription, uuid, now) ==
  [id |-> uuid, customerId |-> tok.userId,
   vehicleNumberPlate |-> vehicleNumberPlate, issueDescription |-> issueDescription,
   status |-> "Pending", assignedMechanicId |-> Null, partsUsed |-> <<>>,
   createdDate |-> now, dispatchedDate |-> NoDate]

\* variant: the validation answers 400 but does not return, the job card is pushed
RequestServiceNoReturn(d, tok, vehicleNumberPlate, issueDescription, uuid, now) ==
  LET a == Auth(tok, {"customer"})
      pushed == [d EXCEPT !.jobCards =
                   Append(@, NewJobCard(tok, vehicleNumberPlate, issueDescription, uuid, now))]
  IN
  IF a # 0 THEN Denied(a, d)
  ELSE IF RequestInvalid(vehicleNumberPlate, issueDescription)
    THEN Reply(400, MsgRequestInput, pushed)
  ELSE Reply(201, MsgOK, pushed)

RequestService(d, tok, vehicleNumberPlate, issueDescription, uuid, now) ==
  LET a == Auth(tok, {"customer"}) IN
  IF a # 0 THEN Denied(a, d)
  ELSE IF RequestInvalid(vehicleNumberPlate, issueDescription)
    THEN Reply(400, MsgRequestInput, d)
  ELSE Reply(201, MsgOK,
         [d EXCEPT !.jobCards =
            Append(@, NewJobCard(tok, vehicleNumberPlate, issueDescription, uuid, now))])

----------------------------------------------------------------------------
(* The read routes: they call readDB and never writeDB *)

MsgNA == "N/A"

FindUser(d, id) == FirstIndex({i \in 1..Len(d.users) : d.users[i].id = id})

\* customer ? customer.fullName : "N/A", and the like
FullNameOf(d, id) == IF FindUser(d, id) = 0 THEN MsgNA ELSE d.users[FindUser(d, id)].fullName
MobileOf(d, id) == IF FindUser(d, id) = 0 THEN MsgNA ELSE d.users[FindUser(d, id)].mobile

\* a reply that carries data
Data(body, d) == [code |-> 200, msg |-> MsgOK, db |-> d, body |-> body]
NoData(a, d) == [code |-> a, msg |-> IF a = 401 THEN MsgNoToken ELSE MsgRole, db |-> d, body |-> <<>>]

\* the mechanics as the dashboard lists them
IsMechanic(u) == u.role = "mechanic"
MechanicEntry(u) == [id |-> u.id, fullName |-> u.fullName]

\* GET /api/admin/dashboard-data
Dashboard(d, tok) ==
  LET a == Auth(tok, {"admin"})
      found == SelectSeq(d.users, IsMechanic)
      mechanics == [i \in 1..Len(found) |-> MechanicEntry(found[i])]
      jobCards == [i \in 1..Len(d.jobCards) |->
                     d.jobCards[i] @@
                       [customerName |-> FullNameOf(d, d.jobCards[i].customerId),
                        mechanicName |-> FullNameOf(d, d.jobCards[i].assignedMechanicId)]]
  IN
  IF a # 0 THEN NoData(a, d)
  ELSE Data([jobCards |-> jobCards, mechanics |-> mechanics, parts |-> d.parts], d)

\* GET /api/inventory/parts
Inventory(d, tok) ==
  LET a == Auth(tok, {"mechanic", "admin"}) IN
  IF a # 0 THEN NoData(a, d) ELSE Data(d.parts, d)

\* GET /api/mechanic/jobs
MechanicJobs(d, tok) ==
  LET a == Auth(tok, {"mechanic"})
      Mine(job) == job.assignedMechanicId = tok.userId
      myJobs == SelectSeq(d.jobCards, Mine)
  IN
  IF a # 0 THEN NoData(a, d)
  ELSE Data([i \in 1..Len(myJobs) |->
               myJobs[i] @@ [customerName |-> FullNameOf(d, myJobs[i].customerId),
                             customerMobile |-> MobileOf(d, myJobs[i].customerId)]], d)

\* what a customer sees of a job card
JobStatus(job) ==
  [jobId |-> job.id, vehicle |-> job.vehicleNumberPlate, issue |-> job.issueDescription,
   status |-> job.status, created |-> job.createdDate]

\* variant: the job cards are not filtered by customer
CustomerStatusAll(d, tok) ==
  LET a == Auth(tok, {"customer"}) IN
  IF a # 0 THEN NoData(a, d)
  ELSE Data([i \in 1..Len(d.jobCards) |-> JobStatus(d.jobCards[i])], d)

\* GET /api/customer/status
CustomerStatus(d, tok) ==
  LET a == Auth(tok, {"customer"})
      Mine(job) == job.customerId = tok.userId
      myJobs == SelectSeq(d.jobCards, Mine)
  IN
  IF a # 0 THEN NoData(a, d)
  ELSE IF Len(myJobs) = 0 THEN Data(<<>>, d)
  ELSE Data([i \in 1..Len(myJobs) |-> JobStatus(myJobs[i])], d)

\* writeDB ran: only a handler that answers 200 or 201 reaches it
Wrote(r) == r.code \in {200, 201}

----------------------------------------------------------------------------
(* Requests the clients send *)

Body(username, password, fullName, mobile, role) ==
  [username |-> username, password |-> password, fullName |-> fullName,
   mobile |-> mobile, role |-> role]

RegisterBodies ==
  { Body("mech1", "pw", "Mia", "901", "mechanic"),
    Body("mech2", "pw", "Max", "902", "mechanic"),
    Body("cust2", "pw", "Cy", "903", "customer"),
    Body("boss", "pw", "Bo", "904", "admin"),
    Body("mgr", "pw", "Mo", "905", "manager"),
    Body("", "pw", "Nn", "906", "customer"),
    Body("mech3", "pw", "Mat", Undefined, "mechanic") }

Credentials ==
  { <<"admin", "admin123">>, <<"admin", "pw">>, <<"mech1", "pw">>, <<"mech2", "pw">>,
    <<"cust1", "pw">>, <<"cust2", "pw">>, <<"mgr", "pw">>, <<"ghost", "pw">>, <<"mech1", Undefined>> }

\* quantityUsed as the text parseInt sees
QuantityTexts ==
  { <<"1">>, <<"2">>, <<"0">>, <<"-", "1">>, <<"a", "b", "c">>, <<"2", ".", "5">>,
    <<"3", "a", "b", "c">>, <<>> }

\* <<partId, quantityUsed>> of a log-part request
LogPartInputs ==
  (PartIds \X {<<"1">>, <<"2">>})
    \cup ({"p1"} \X QuantityTexts)
    \cup ({"p9", Undefined} \X {<<"1">>})

StatusInputs == validStatuses \cup {"Pending", "Assigned", "Done", Undefined}

PlateInputs == {"MH12", ""}
IssueInputs == {"leak", Undefined}

\* the :id of a request: a stored job card's id, or one that names no job card
JobIdInputs == {db.jobCards[i].id : i \in 1..Len(db.jobCards)} \cup {Null}

MechanicIdInputs == {db.users[i].id : i \in 1..Len(db.users)} \cup {Null}

Slots == {1, 2}
Idle == [pc |-> "idle"]

JobIds == 1..MaxUUID
NoneLogged == [k \in JobIds \X PartIds |-> <<>>]

Response(op, r) == [op |-> op, code |-> r.code, msg |-> r.msg]

\* The middleware answers before the handler reads the request: when it stops the
\* session's request, one request stands for all of them.
Sent(roles, requests) ==
  IF Auth(session, roles) = 0 THEN requests ELSE {CHOOSE x \in requests : TRUE}

----------------------------------------------------------------------------
(* One request at a time: every handler is one step *)

Init ==
  /\ db = SeedDB
  /\ session = NoToken
  /\ uuidCount = 0
  /\ resp = [op |-> "none", code |-> 0, msg |-> MsgOK]
  /\ logged = NoneLogged
  /\ inflight = [s \in Slots |-> Idle]
  /\ lastWrite = 0
  /\ started = 0

DoLogin ==
  \E c \in Credentials :
    LET r == Login(db, c[1], c[2]) IN
    /\ session' = IF r.code = 200 THEN r.token ELSE session
    /\ resp' = Response("login", r)
    /\ UNCHANGED <<db, uuidCount, logged, inflight, lastWrite, started>>

\* the client drops its token (logout in public/app.js)
DoLogout ==
  /\ session # NoToken
  /\ session' = NoToken
  /\ resp' = [op |-> "logout", code |-> 0, msg |-> MsgOK]
  /\ UNCHANGED <<db, uuidCount, logged, inflight, lastWrite, started>>

DoRegister ==
  \E body \in Sent({"admin"}, RegisterBodies) :
    LET r == Register(db, session, body, randomUUID(uuidCount)) IN
    /\ Wrote(r) => uuidCount < MaxUUID
    /\ db' = r.db
    /\ uuidCount' = IF Wrote(r) THEN uuidCount + 1 ELSE uuidCount
    /\ resp' = Response("register", r)
    /\ UNCHANGED <<session, logged, inflight, lastWrite, started>>

DoAssign ==
  \E in \in Sent({"admin"}, JobIdInputs \X MechanicIdInputs) :
    LET id == in[1]
        mechanicId == in[2]
        r == Assign(db, session, id, mechanicId)
    IN
    /\ db' = r.db
    /\ resp' = Response("assign", r)
    /\ UNCHANGED <<session, uuidCount, logged, inflight, lastWrite, started>>

DoLogPart ==
  \E in \in Sent({"mechanic"}, JobIdInputs \X LogPartInputs) :
    LET id == in[1]
        partId == in[2][1]
        quantityUsed == in[2][2]
        r == LogPart(db, session, id, partId, quantityUsed)
    IN
    /\ db' = r.db
    /\ resp' = Response("log-part", r)
    /\ logged' = IF Wrote(r)
                   THEN [logged EXCEPT ![<<id, partId>>] = Append(@, parseInt(quantityUsed).n)]
                   ELSE logged
    /\ UNCHANGED <<session, uuidCount, inflight, lastWrite, started>>

DoUpdateStatus ==
  \E in \in Sent({"mechanic"}, JobIdInputs \X StatusInputs), now \in Times :
    LET id == in[1]
        status == in[2]
        r == UpdateStatus(db, session, id, status, now)
    IN
    /\ db' = r.db
    /\ resp' = Response("status", r)
    /\ UNCHANGED <<session, uuidCount, logged, inflight, lastWrite, started>>

DoRequestService ==
  \E in \in Sent({"customer"}, PlateInputs \X IssueInputs), now \in Times :
    LET r == RequestService(db, session, in[1], in[2], randomUUID(uuidCount), now) IN
    /\ Wrote(r) => uuidCount < MaxUUID
    /\ db' = r.db
    /\ uuidCount' = IF Wrote(r) THEN uuidCount + 1 ELSE uuidCount
    /\ resp' = Response("request-service", r)
    /\ UNCHANGED <<session, logged, inflight, lastWrite, started>>

\* the four read routes: the document is read, a reply is sent, nothing is stored
DoDashboard ==
  /\ resp' = Response("dashboard-data", Dashboard(db, session))
  /\ UNCHANGED <<db, session, uuidCount, logged, inflight, lastWrite, started>>

DoInventory ==
  /\ resp' = Response("inventory", Inventory(db, session))
  /\ UNCHANGED <<db, session, uuidCount, logged, inflight, lastWrite, started>>

DoMechanicJobs ==
  /\ resp' = Response("mechanic-jobs", MechanicJobs(db, session))
  /\ UNCHANGED <<db, session, uuidCount, logged, inflight, lastWrite, started>>

DoCustomerStatus ==
  /\ resp' = Response("customer-status", CustomerStatus(db, session))
  /\ UNCHANGED <<db, session, uuidCount, logged, inflight, lastWrite, started>>

Next ==
  \/ DoLogin
  \/ DoLogout
  \/ DoRegister
  \/ DoAssign
  \/ DoLogPart
  \/ DoUpdateStatus
  \/ DoRequestService
  \/ DoDashboard
  \/ DoInventory
  \/ DoMechanicJobs
  \/ DoCustomerStatus

Spec == Init /\ [][Next]_vars

----------------------------------------------------------------------------
(* Interleaved requests: a handler suspends at await readDB() and at       *)
(* await writeDB(db); between the two it works on the document it loaded.  *)

\* the requests sent while another may be in flight (all pass validation)
ConcRequests ==
  { [op |-> "register", body |-> Body("mech2", "pw", "Max", "902", "mechanic")],
    [op |-> "request-service", plate |-> "MH12", issue |-> "leak"] }
    \cup { [op |-> "assign", id |-> id, mechanicId |-> m] :
             id \in JobIdInputs \ {Null}, m \in MechanicIdInputs \ {Null} }
    \cup { [op |-> "log-part", id |-> id, partId |-> "p1", quantityUsed |-> q] :
             id \in JobIdInputs \ {Null}, q \in {<<"1">>, <<"2">>} }
    \cup { [op |-> "status", id |-> id, status |-> st] :
             id \in JobIdInputs \ {Null}, st \in {"In Progress", "Dispatched"} }

RolesOf(op) ==
  CASE op \in {"register", "assign"} -> {"admin"}
    [] op \in {"log-part", "status"} -> {"mechanic"}
    [] op = "request-service" -> {"customer"}

\* the handler of request q run on document d
Handle(q, d, tok, uuid, now) ==
  CASE q.op = "register" -> Register(d, tok, q.body, uuid)
    [] q.op = "assign" -> Assign(d, tok, q.id, q.mechanicId)
    [] q.op = "log-part" -> LogPart(d, tok, q.id, q.partId, q.quantityUsed)
    [] q.op = "status" -> UpdateStatus(d, tok, q.id, q.status, now)
    [] q.op = "request-service" -> RequestService(d, tok, q.plate, q.issue, uuid, now)

UsesUUID(op) == op \in {"register", "request-service"}

\* variant: the handler works on the document as stored when it resumes
LoadedAfresh(s) == db

\* the document a suspended handler resumes with: what readDB() returned to it
Loaded(s) == inflight[s].snap

\* await readDB() of a request that passed the middleware
Load(s) ==
  /\ inflight[s].pc # "loaded"
  /\ \E q \in ConcRequests :
       /\ Auth(session, RolesOf(q.op)) = 0
       /\ inflight' = [inflight EXCEPT ![s] =
            [pc |-> "loaded", req |-> q, tok |-> session, snap |-> db, stale |-> FALSE]]
  /\ started < MaxRequests
  /\ started' = started + 1
  /\ UNCHANGED <<db, session, uuidCount, resp, logged, lastWrite>>

\* the rest of the handler: checks and changes on the loaded document, writeDB, reply
Finish(s) ==
  /\ inflight[s].pc = "loaded"
  /\ \E now \in Times :
       LET q == inflight[s].req
           uuid == randomUUID(uuidCount)
           r == Handle(q, Loaded(s), inflight[s].tok, uuid, now)
           used == Wrote(r) /\ UsesUUID(q.op)
       IN
       /\ used => uuidCount < MaxUUID
       /\ db' = IF Wrote(r) THEN r.db ELSE db
       /\ uuidCount' = IF used THEN uuidCount + 1 ELSE uuidCount
       /\ resp' = Response(q.op, r)
       /\ lastWrite' = IF Wrote(r) THEN s ELSE lastWrite
       /\ inflight' =
            [t \in Slots |->
               IF t = s
                 THEN [pc |-> "done", req |-> q,
                       snap |-> inflight[s].snap, stale |-> inflight[s].stale,
                       code |-> r.code, uuid |-> IF used THEN uuid ELSE Null]
               ELSE IF inflight[t].pc = "loaded" /\ Wrote(r)
                 THEN [inflight[t] EXCEPT !.stale = TRUE]
               ELSE inflight[t]]
       /\ logged' = IF Wrote(r) /\ q.op = "log-part"
                      THEN [logged EXCEPT ![<<q.id, q.partId>>] =
                              Append(@, parseInt(q.quantityUsed).n)]
                      ELSE logged
  /\ UNCHANGED <<session, started>>

ConcLogin == DoLogin

NextConc ==
  \/ ConcLogin
  \/ \E s \in Slots : Load(s)
  \/ \E s \in Slots : Finish(s)

SpecConc == Init /\ [][NextConc]_vars

----------------------------------------------------------------------------
(* Properties *)

JobIndexes == 1..Len(db.jobCards)
PartIndexes == 1..Len(db.parts)
UserIndexes == 1..Len(db.users)

RECURSIVE Sum(_)
Sum(seq) == IF seq = <<>> THEN 0 ELSE Head(seq) + Sum(Tail(seq))

\* C1: every part's stored quantity is >= 0 in every state reachable by the
\* handlers run one after another.
C1_StockNeverNegative == \A p \in PartIndexes : db.parts[p].quantity >= 0

\* a log-part call has just emptied a part's stock
C1_Witness ==
  /\ resp.op = "log-part" /\ resp.code = 200
  /\ \E p \in PartIndexes : db.parts[p].quantity = 0 /\ db.parts[p].id = "p1"

\* a quantity text that is a plain decimal numeral
PlainNumeral(text) == text # <<>> /\ \A i \in 1..Len(text) : text[i] \in Digits

\* C2: a successful log-part lowers the named part's quantity by exactly the
\* quantity logged; a quantity above the part's stock is answered 400 "Not enough
\* stock" and the document (stock and partsUsed) stays as it was. Stated of the
\* handler on every reachable document, for every request of the session.
C2_LogPartStock ==
  \A id \in JobIdInputs, in \in LogPartInputs :
    LET r == LogPart(db, session, id, in[1], in[2])
        q == parseInt(in[2]).n
        p == FindPart(db, in[1])
        j == FindJob(db, id)
    IN  PlainNumeral(in[2]) =>
          /\ r.code = 200 =>
               /\ p # 0
               /\ r.db.parts[p].quantity = db.parts[p].quantity - q
          /\ ( /\ Auth(session, {"mechanic"}) = 0
               /\ q > 0 /\ j # 0 /\ p # 0
               /\ db.jobCards[j].assignedMechanicId = session.userId
               /\ q > db.parts[p].quantity )
             => r.code = 400 /\ r.msg = MsgNoStock /\ r.db = db

\* the scenario of the claim at this stock: one unit was logged, and the next
\* call, for more than is left, has just been refused
C2_Witness ==
  /\ resp.op = "log-part" /\ resp.code = 400 /\ resp.msg = MsgNoStock
  /\ \E p \in PartIndexes :
       /\ db.parts[p].id = "p1" /\ db.parts[p].quantity = InitStock - 1
       /\ \E j \in JobIndexes :
            db.jobCards[j].partsUsed = <<[partId |-> "p1", partName |-> "Filter", quantity |-> 1]>>

\* C3: a job card's partsUsed holds at most one entry per part, and the entry's
\* quantity is the sum of the quantities of the successful log-part calls for that
\* part on that job (no entry when there was none).
C3_PartsUsedCoalesced ==
  \A j \in JobIndexes : \A pid \in PartIds :
    LET job == db.jobCards[j]
        entries == {k \in 1..Len(job.partsUsed) : job.partsUsed[k].partId = pid}
    IN  /\ Cardinality(entries) <= 1
        /\ \A k \in entries : job.partsUsed[k].quantity = Sum(logged[<<job.id, pid>>])
        /\ entries = {} => logged[<<job.id, pid>>] = <<>>

\* two calls for the same part on the same job have been added up in one entry
C3_Witness ==
  \E j \in JobIndexes :
    /\ logged[<<db.jobCards[j].id, "p1">>] = <<1, 1>>
    /\ \E k \in 1..Len(db.jobCards[j].partsUsed) :
         /\ db.jobCards[j].partsUsed[k].partId = "p1"
         /\ db.jobCards[j].partsUsed[k].quantity = 2
    /\ resp.op = "log-part" /\ resp.code = 200

\* C4: a job card's assignedMechanicId, when not null, is the id of a stored user
\* whose role is mechanic.
C4_AssigneeIsMechanic ==
  \A j \in JobIndexes :
    db.jobCards[j].assignedMechanicId # Null =>
      \E u \in UserIndexes :
        /\ db.users[u].id = db.jobCards[j].assignedMechanicId
        /\ db.users[u].role = "mechanic"

\* a job card is assigned to a mechanic who was registered after the seed
C4_Witness ==
  /\ resp.op = "assign" /\ resp.code = 200
  /\ \E j \in JobIndexes : \E u \in UserIndexes :
       /\ db.users[u].id = db.jobCards[j].assignedMechanicId
       /\ db.users[u].username = "mech2"

\* well-formed bodies of the two mechanic requests
ValidLogPartInputs == {in \in LogPartInputs : ~PartInputInvalid(in[1], parseInt(in[2]))}
ValidStatusInputs == {st \in StatusInputs : ~StatusInvalid(st)}

\* the session is a mechanic's and the job card at index j (0: none) is not assigned to them
NotMine(j) ==
  /\ session.role = "mechanic"
  /\ j = 0 \/ db.jobCards[j].assignedMechanicId # session.userId

\* C5 (as claimed): a mechanic's status update or log-part on a job not assigned to
\* them is answered Forbidden (403) whether or not the job id names a job card.
C5_ForbiddenEvenIfNoJob ==
  \A id \in JobIdInputs :
    NotMine(FindJob(db, id)) =>
      /\ \A in \in ValidLogPartInputs :
           LogPart(db, session, id, in[1], in[2]).code = 403
      /\ \A st \in ValidStatusInputs, now \in Times :
           UpdateStatus(db, session, id, st, now).code = 403

\* C5 (amended): such a request is answered Forbidden (403) when the job card exists
\* and Not Found (404) when the id names no job card; the document is unchanged.
C5_ForbiddenOrNotFound ==
  \A id \in JobIdInputs :
    LET j == FindJob(db, id)
        Refused(r) ==
          /\ r.db = db
          /\ j # 0 => r.code = 403 /\ r.msg = MsgNotAssigned
          /\ j = 0 => r.code = 404 /\ r.msg = MsgJobNotFound
    IN  NotMine(j) =>
          /\ \A in \in ValidLogPartInputs : Refused(LogPart(db, session, id, in[1], in[2]))
          /\ \A st \in ValidStatusInputs, now \in Times :
               Refused(UpdateStatus(db, session, id, st, now))

\* a mechanic has just been answered 404 for a job id that names no job card
C5_Witness ==
  /\ resp.op \in {"status", "log-part"}
  /\ resp.code = 404 /\ resp.msg = MsgJobNotFound
  /\ session.role = "mechanic"

\* C6: the status and log-part handlers change the document only for the job's
\* assignee of the moment, and answer a well-formed request of any other mechanic
\* on an existing job with Forbidden (403), also when the job is unassigned.
C6_OnlyAssigneeChanges ==
  \A id \in JobIdInputs :
    LET j == FindJob(db, id)
        Mine == j # 0 /\ db.jobCards[j].assignedMechanicId = session.userId
    IN  /\ \A in \in LogPartInputs :
             LET r == LogPart(db, session, id, in[1], in[2]) IN
             /\ r.db # db => Mine
             /\ (in \in ValidLogPartInputs /\ j # 0 /\ NotMine(j))
                  => r.code = 403 /\ r.db = db
        /\ \A st \in StatusInputs, now \in Times :
             LET r == UpdateStatus(db, session, id, st, now) IN
             /\ (r.db # db \/ r.code = 200) => Mine
             /\ (st \in ValidStatusInputs /\ j # 0 /\ NotMine(j))
                  => r.code = 403 /\ r.db = db

\* a mechanic has just been refused on a job card assigned to another mechanic
C6_Witness ==
  /\ resp.op \in {"status", "log-part"}
  /\ resp.code = 403 /\ resp.msg = MsgNotAssigned
  /\ session.role = "mechanic"
  /\ db.jobCards # <<>>
  /\ \A j \in JobIndexes :
       db.jobCards[j].assignedMechanicId \notin {Null, session.userId}

MechanicTokens ==
  {TokenOf(db.users[u]) : u \in {i \in UserIndexes : db.users[i].role = "mechanic"}}

\* some mechanic's status update to st on the job card at j succeeds and sets st
CanSetStatus(j, st) ==
  \E tok \in MechanicTokens : \A now \in Times :
    LET r == UpdateStatus(db, tok, db.jobCards[j].id, st, now) IN
    r.code = 200 /\ r.db.jobCards[j].status = st

\* C8 (as claimed): each of the three statuses can be set on an existing job from
\* any prior status, Pending included.
C8_SetFromAnyStatus ==
  \A j \in JobIndexes : \A st \in validStatuses : CanSetStatus(j, st)

\* C8 (amended): each of the three statuses can be set, by the assigned mechanic,
\* from Assigned, In Progress, Ready for Dispatch and Dispatched alike (there is no
\* forward-only check); a Pending job has no assignee and every mechanic's status
\* update on it is answered Forbidden.
C8_SetFromAnyStatusButPending ==
  \A j \in JobIndexes : \A st \in validStatuses :
    /\ db.jobCards[j].status # "Pending" => CanSetStatus(j, st)
    /\ db.jobCards[j].status = "Pending" =>
         \A tok \in MechanicTokens, now \in Times :
           UpdateStatus(db, tok, db.jobCards[j].id, st, now).code = 403

\* a job card that was dispatched has just been moved back to In Progress
C8_Witness ==
  /\ resp.op = "status" /\ resp.code = 200
  /\ Len(db.jobCards) = 1
  /\ db.jobCards[1].status = "In Progress"
  /\ db.jobCards[1].dispatchedDate # NoDate

\* C9: a request answered with an error (401, 403, 404, 409, or 400 for a bad
\* input or too little stock) leaves the stored document as it was; so a service
\* request with an empty plate or issue adds no job card.
C9_ErrorsChangeNothing == [][resp'.code \notin {0, 200, 201} => db' = db]_vars

\* a customer's service request has just been refused as invalid, and no job card exists
C9_Witness ==
  /\ resp.op = "request-service" /\ resp.code = 400 /\ resp.msg = MsgRequestInput
  /\ session.role = "customer"
  /\ db.jobCards = <<>>

\* C10: a successful service request appends exactly one job card: Pending, no
\* parts used, no assignee, the caller as customer, and an id no stored job card
\* has; the job cards already stored, the users and the parts stay as they were.
C10_RequestAppendsPendingJob ==
  [][ (resp'.op = "request-service" /\ resp'.code = 201) =>
        LET n == Len(db.jobCards)
            new == db'.jobCards[n + 1]
        IN  /\ Len(db'.jobCards) = n + 1
            /\ SubSeq(db'.jobCards, 1, n) = db.jobCards
            /\ new.status = "Pending"
            /\ new.partsUsed = <<>>
            /\ new.assignedMechanicId = Null
            /\ new.customerId = session.userId
            /\ \A i \in 1..n : db.jobCards[i].id # new.id
            /\ db'.users = db.users /\ db'.parts = db.parts ]_vars

\* a second job card has just been appended to a first one
C10_Witness ==
  /\ resp.op = "request-service" /\ resp.code = 201
  /\ Len(db.jobCards) = 2
  /\ db.jobCards[1].id # db.jobCards[2].id
  /\ db.jobCards[2].status = "Pending"

\* slot t wrote last, from a document it loaded before slot s wrote; both were
\* answered with success
Raced(s, t) ==
  /\ s # t
  /\ inflight[s].pc = "done" /\ inflight[s].code \in {200, 201}
  /\ inflight[t].pc = "done" /\ inflight[t].code \in {200, 201}
  /\ inflight[t].stale
  /\ lastWrite = t

\* what a finished request took from the stock of part pid
Taken(slot, pid) ==
  IF slot.req.op = "log-part" /\ slot.req.partId = pid
    THEN parseInt(slot.req.quantityUsed).n
    ELSE 0

\* C7: when two requests both load the document before either saves it and both
\* succeed, the stored document is the later writer's: a job card or a user the
\* earlier request added is not in it, and the stock is what the later writer
\* loaded less only its own quantity (the earlier decrement is gone).
C7_LostUpdate ==
  \A s \in Slots, t \in Slots :
    Raced(s, t) =>
      LET snap == inflight[t].snap IN
      /\ inflight[s].req.op = "request-service" =>
           \A j \in JobIndexes : db.jobCards[j].id # inflight[s].uuid
      /\ inflight[s].req.op = "register" =>
           \A u \in UserIndexes : db.users[u].id # inflight[s].uuid
      /\ inflight[s].req.op = "log-part" =>
           \A p \in PartIndexes :
             db.parts[p].quantity =
               snap.parts[p].quantity - Taken(inflight[t], db.parts[p].id)

\* two log-part calls of one unit each raced on the same job card: both were
\* answered 200, and one unit only is missing from the stock and logged in the job
C7_Witness ==
  \E s \in Slots, t \in Slots :
    /\ Raced(s, t)
    /\ inflight[s].req.op = "log-part" /\ inflight[t].req = inflight[s].req
    /\ inflight[s].req.quantityUsed = <<"1">>
    /\ inflight[s].snap = inflight[t].snap
    /\ \E p \in PartIndexes :
         db.parts[p].id = "p1" /\ db.parts[p].quantity = InitStock - 1
    /\ \E j \in JobIndexes :
         db.jobCards[j].partsUsed = <<[partId |-> "p1", partName |-> "Filter", quantity |-> 1]>>

\* mechanicId is the id of a stored user whose role is mechanic
IsMechanicId(mechanicId) ==
  \E u \in UserIndexes : db.users[u].id = mechanicId /\ db.users[u].role = "mechanic"

\* C11: an admin's assign on an existing job card with the id of a stored mechanic
\* is answered 200 and sets that job card's assignedMechanicId to the id and its
\* status to Assigned, nothing else; with any other mechanicId (no such user, a
\* customer's id, an admin's id) it is answered 404 and the document is unchanged.
C11_AssignSetsMechanicAndStatus ==
  \A id \in JobIdInputs \ {Null}, m \in MechanicIdInputs :
    LET j == FindJob(db, id)
        r == Assign(db, session, id, m)
    IN  session.role = "admin" =>
          IF IsMechanicId(m)
            THEN /\ r.code = 200
                 /\ r.db.jobCards[j].assignedMechanicId = m
                 /\ r.db.jobCards[j].status = "Assigned"
                 /\ r.db = [db EXCEPT !.jobCards[j].assignedMechanicId = m,
                                      !.jobCards[j].status = "Assigned"]
            ELSE /\ r.code = 404 /\ r.msg = MsgMechanicNotFound
                 /\ r.db = db

\* an admin has just assigned a job card to the seeded mechanic
C11_Witness ==
  /\ resp.op = "assign" /\ resp.code = 200
  /\ session.role = "admin"
  /\ \E j \in JobIndexes :
       /\ db.jobCards[j].assignedMechanicId = AdminId + 1
       /\ db.jobCards[j].status = "Assigned"

\* the ids of the stored mechanics
MechanicIds == {m \in MechanicIdInputs : IsMechanicId(m)}

\* C12: an admin's assign succeeds on a job card in any status; repeating it with
\* the same mechanic leaves the document as the first call left it; and assigning
\* mechanic m2 after mechanic m1 gives the document that assigning m2 alone gives
\* (the job card names m2 and holds nothing of m1).
C12_ReassignIdempotentOverwrites ==
  \A id \in JobIdInputs \ {Null}, m1 \in MechanicIds, m2 \in MechanicIds :
    LET j     == FindJob(db, id)
        once  == Assign(db, session, id, m1)
        twice == Assign(once.db, session, id, m1)
        other == Assign(once.db, session, id, m2)
    IN  session.role = "admin" =>
          /\ once.code = 200
          /\ twice.code = 200 /\ twice.db = once.db
          /\ other.code = 200
          /\ other.db = Assign(db, session, id, m2).db
          /\ other.db.jobCards[j].assignedMechanicId = m2

\* a job card that was worked on and dispatched has just been assigned again, to a
\* mechanic registered after the seed, while two mechanics are stored
C12_Witness ==
  /\ resp.op = "assign" /\ resp.code = 200
  /\ Cardinality(MechanicIds) = 2
  /\ \E j \in JobIndexes :
       /\ db.jobCards[j].status = "Assigned"
       /\ db.jobCards[j].dispatchedDate # NoDate
       /\ db.jobCards[j].assignedMechanicId \notin {Null, AdminId + 1}

\* the replies of one mutating route to every request the session can send
RegisterReplies == {Register(db, session, body, randomUUID(uuidCount)) : body \in RegisterBodies}
AssignReplies ==
  {Assign(db, session, in[1], in[2]) : in \in JobIdInputs \X MechanicIdInputs}
LogPartReplies ==
  {LogPart(db, session, in[1], in[2][1], in[2][2]) : in \in JobIdInputs \X LogPartInputs}
StatusReplies ==
  {UpdateStatus(db, session, in[1], in[2], in[3]) : in \in JobIdInputs \X StatusInputs \X Times}
RequestReplies ==
  {RequestService(db, session, in[1], in[2], randomUUID(uuidCount), in[3]) :
     in \in PlateInputs \X IssueInputs \X Times}

\* the replies of a route whose actor is role: they change the document or report
\* success only for a session of that role, and for a session of another role they
\* are 403 with the document unchanged
GatedTo(role, replies) ==
  \A r \in replies :
    /\ (r.db # db \/ Wrote(r)) => session.role = role
    /\ (session # NoToken /\ session.role # role)
         => r.code = 403 /\ r.msg = MsgRole /\ r.db = db

\* C13: request-service takes effect only for a customer's session, status and
\* log-part only for a mechanic's, assign and register only for an admin's; a
\* session of any other role is answered 403 and the document is unchanged.
C13_RoleGated ==
  /\ GatedTo("customer", RequestReplies)
  /\ GatedTo("mechanic", StatusReplies)
  /\ GatedTo("mechanic", LogPartReplies)
  /\ GatedTo("admin", AssignReplies)
  /\ GatedTo("admin", RegisterReplies)

\* a mechanic has just been refused an assign while a job card waits unassigned
C13_Witness ==
  /\ resp.op = "assign" /\ resp.code = 403 /\ resp.msg = MsgRole
  /\ session.role = "mechanic"
  /\ \E j \in JobIndexes : db.jobCards[j].assignedMechanicId = Null

\* C14 (as claimed): register accepts only the roles mechanic and customer, so in
\* every reachable state every stored user's role is admin, mechanic or customer,
\* and the only admin is the seeded one.
C14_RolesAreTheThree ==
  /\ \A u \in UserIndexes : db.users[u].role \in {"admin", "mechanic", "customer"}
  /\ \A u \in UserIndexes : db.users[u].role = "admin" => db.users[u].id = AdminId

AllStatuses == {"Pending", "Assigned", "In Progress", "Ready for Dispatch", "Dispatched"}

\* C15: every stored job card's status is Pending, Assigned, In Progress, Ready
\* for Dispatch or Dispatched; and a mechanic's status update whose status is not
\* In Progress, Ready for Dispatch or Dispatched (Pending, Assigned, another text,
\* or none) is answered 400 "Invalid or missing status." with the document unchanged.
C15_StatusValues ==
  /\ \A j \in JobIndexes : db.jobCards[j].status \in AllStatuses
  /\ session.role = "mechanic" =>
       \A id \in JobIdInputs, st \in StatusInputs \ validStatuses, now \in Times :
         LET r == UpdateStatus(db, session, id, st, now) IN
         r.code = 400 /\ r.msg = MsgBadStatus /\ r.db = db

\* the mechanic a job card is assigned to has just been refused a status
C15_Witness ==
  /\ resp.op = "status" /\ resp.code = 400 /\ resp.msg = MsgBadStatus
  /\ session.role = "mechanic"
  /\ \E j \in JobIndexes :
       /\ db.jobCards[j].assignedMechanicId = session.userId
       /\ db.jobCards[j].status = "In Progress"

\* clock readings of a status update: those of the runs and a later one
ClockReadings == 1..(MaxTime + 1)

\* C16: a status update answered 200 sets the job card's status to the status
\* sent and changes nothing else, except that for Dispatched it also sets
\* dispatchedDate to the clock reading of the call (also over an earlier stamp);
\* for In Progress and Ready for Dispatch dispatchedDate stays as it was.
C16_StatusAndDispatchStamp ==
  \A id \in JobIdInputs, st \in StatusInputs, now \in ClockReadings :
    LET j   == FindJob(db, id)
        r   == UpdateStatus(db, session, id, st, now)
        was == db.jobCards[j].dispatchedDate
    IN  r.code = 200 =>
          /\ j # 0
          /\ r.db.jobCards[j].status = st
          /\ r.db.jobCards[j].dispatchedDate = IF st = "Dispatched" THEN now ELSE was
          /\ r.db = [db EXCEPT !.jobCards[j].status = st,
                               !.jobCards[j].dispatchedDate =
                                  IF st = "Dispatched" THEN now ELSE was]

\* a job card has just been dispatched and carries the stamp, and the mechanic can
\* move it on without touching the stamp
C16_Witness ==
  /\ resp.op = "status" /\ resp.code = 200
  /\ \E j \in JobIndexes :
       /\ db.jobCards[j].status = "Dispatched"
       /\ db.jobCards[j].dispatchedDate \in Times
       /\ db.jobCards[j].assignedMechanicId = session.userId

\* a quantity text that denotes a positive integer
PositiveInteger(text) == PlainNumeral(text) /\ parseInt(text).n > 0

\* C17 (as claimed): a log-part whose quantity is not a positive integer (zero,
\* negative, not a number, 2.5, "3abc") is answered 400 "Valid Part ID and positive
\* quantity are required." and the document is unchanged. Stated of the requests
\* of the mechanic a job card is assigned to, for a part in the inventory: nothing
\* but the quantity can stop them.
C17_QuantityPositiveInteger ==
  \A id \in JobIdInputs, partId \in PartIds, text \in QuantityTexts :
    LET j == FindJob(db, id)
        r == LogPart(db, session, id, partId, text)
    IN  ( /\ session.role = "mechanic"
          /\ j # 0 /\ db.jobCards[j].assignedMechanicId = session.userId
          /\ ~PositiveInteger(text) )
        => r.code = 400 /\ r.msg = MsgPartInput /\ r.db = db

\* the parts of document e are those of the stored document, in the same order,
\* with the same quantities except for the part named pid
SamePartsBut(e, pid) ==
  /\ Len(e.parts) = Len(db.parts)
  /\ \A p \in PartIndexes :
       /\ e.parts[p].id = db.parts[p].id
       /\ e.parts[p].partName = db.parts[p].partName
       /\ db.parts[p].id # pid => e.parts[p].quantity = db.parts[p].quantity

\* C18: a step that is not a log-part answered 200 (register, assign, status,
\* request-service, login, the four read routes, any refused request) leaves
\* db.parts as it was; a log-part keeps the parts and their order and changes no
\* quantity but that of the part it names.
C18_OnlyLogPartChangesStock ==
  /\ [][ /\ (resp'.op # "log-part" \/ resp'.code # 200) => db'.parts = db.parts
          /\ \E pid \in PartIds : SamePartsBut(db', pid) ]_vars
  /\ [](\A id \in JobIdInputs, in \in LogPartInputs :
          SamePartsBut(LogPart(db, session, id, in[1], in[2]).db, in[1]))

\* the second part has just been used up and the first part is untouched
C18_Witness ==
  /\ resp.op = "log-part" /\ resp.code = 200
  /\ \E p \in PartIndexes : db.parts[p].id = "p2" /\ db.parts[p].quantity = 0
  /\ \E p \in PartIndexes : db.parts[p].id = "p1" /\ db.parts[p].quantity = InitStock

\* the fields of a job card that are written once, when it is created
Created(job) ==
  <<job.id, job.customerId, job.vehicleNumberPlate, job.issueDescription, job.createdDate>>

\* document e has the job cards of the stored document, at the same places, all
\* but the one with id `id` exactly as stored
SameJobsBut(e, id) ==
  /\ Len(e.jobCards) = Len(db.jobCards)
  /\ \A j \in JobIndexes : db.jobCards[j].id # id => e.jobCards[j] = db.jobCards[j]

\* C19: with the handlers run one at a time, every step keeps every stored job
\* card (none is removed or moved) with its id, customerId, vehicleNumberPlate,
\* issueDescription and createdDate; and assign, status and log-part leave every
\* job card but the one whose id they were given exactly as it was.
C19_JobsKeptAndOthersUntouched ==
  /\ [][ /\ Len(db'.jobCards) >= Len(db.jobCards)
          /\ \A j \in JobIndexes : Created(db'.jobCards[j]) = Created(db.jobCards[j])
          /\ resp'.op \in {"assign", "status", "log-part"} =>
               \E id \in JobIdInputs : SameJobsBut(db', id) ]_vars
  /\ [](\A id \in JobIdInputs :
          /\ \A m \in MechanicIdInputs : SameJobsBut(Assign(db, session, id, m).db, id)
          /\ \A st \in StatusInputs, now \in Times :
               SameJobsBut(UpdateStatus(db, session, id, st, now).db, id)
          /\ \A in \in LogPartInputs :
               SameJobsBut(LogPart(db, session, id, in[1], in[2]).db, id))

\* of two job cards assigned to the same mechanic, that mechanic has just moved
\* one to In Progress; the other is still Assigned
C19_Witness ==
  /\ resp.op = "status" /\ resp.code = 200
  /\ Len(db.jobCards) = 2
  /\ db.jobCards[1].assignedMechanicId = session.userId
  /\ db.jobCards[2].assignedMechanicId = session.userId
  /\ db.jobCards[1].status = "Assigned"
  /\ db.jobCards[2].status = "In Progress"

CustomerTokens ==
  {TokenOf(db.users[u]) : u \in {i \in UserIndexes : db.users[i].role = "customer"}}

\* the stored document, and the documents one and two further service requests
\* of the stored customers lead to
OneMore(docs, uuid) ==
  {RequestService(d, tok, "KA01", "noise", uuid, now).db :
     d \in docs, tok \in CustomerTokens, now \in Times}
DocsAhead ==
  LET one == OneMore({db}, randomUUID(uuidCount)) IN
  {db} \cup one \cup OneMore(one, randomUUID(uuidCount + 1))

\* the index in d.jobCards of the i-th job card of customer c
NthJobOf(d, c, i) ==
  LET mine == {j \in 1..Len(d.jobCards) : d.jobCards[j].customerId = c} IN
  CHOOSE j \in mine : Cardinality({k \in mine : k < j}) = i - 1

\* C20: the customer status route returns to a customer one entry for each job
\* card whose customerId is theirs and for no other, in the order of db.jobCards,
\* each entry with that job card's id, plate, issue, status and creation date.
C20_ListForCustomer ==
  \A d \in DocsAhead, tok \in CustomerTokens :
    LET r == CustomerStatus(d, tok)
        c == tok.userId
    IN  /\ r.code = 200 /\ r.db = d
        /\ Len(r.body) = Cardinality({j \in 1..Len(d.jobCards) : d.jobCards[j].customerId = c})
        /\ \A i \in 1..Len(r.body) :
             LET job == d.jobCards[NthJobOf(d, c, i)] IN
             r.body[i] = [jobId |-> job.id, vehicle |-> job.vehicleNumberPlate,
                          issue |-> job.issueDescription, status |-> job.status,
                          created |-> job.createdDate]

\* a customer has just asked for their job cards while the only job card stored
\* is another customer's: the list is empty
C20_Witness ==
  /\ resp.op = "customer-status" /\ resp.code = 200
  /\ Len(db.jobCards) = 1
  /\ db.jobCards[1].customerId # session.userId
  /\ CustomerStatus(db, session).body = <<>>
  /\ Cardinality(CustomerTokens) = 2

\* the quantity of part pid recorded in a job card's partsUsed
UsedIn(job, pid) ==
  Sum([k \in 1..Len(job.partsUsed) |->
         IF job.partsUsed[k].partId = pid THEN job.partsUsed[k].quantity ELSE 0])

\* the quantity of part pid recorded in all job cards together
UsedInAll(pid) == Sum([j \in JobIndexes |-> UsedIn(db.jobCards[j], pid)])

\* C21: with the handlers run one at a time, every part's seeded quantity equals
\* its stored quantity plus the quantities recorded for it in the partsUsed of
\* all job cards.
C21_StockConserved ==
  /\ Len(db.parts) = Len(SeedDB.parts)
  /\ \A p \in PartIndexes :
       /\ db.parts[p].id = SeedDB.parts[p].id
       /\ SeedDB.parts[p].quantity = db.parts[p].quantity + UsedInAll(db.parts[p].id)

\* the stock of the first part has just been used up, one unit on each of two job cards
C21_Witness ==
  /\ resp.op = "log-part" /\ resp.code = 200
  /\ Len(db.jobCards) = 2
  /\ UsedIn(db.jobCards[1], "p1") = 1 /\ UsedIn(db.jobCards[2], "p1") = 1
  /\ \E p \in PartIndexes : db.parts[p].id = "p1" /\ db.parts[p].quantity = InitStock - 2

\* C22: a stored job card has no assignee exactly when its status is Pending; no
\* step makes a job card Pending again or clears its assignee; and a status
\* update on a job card without assignee succeeds for no mechanic and changes
\* nothing.
C22_UnassignedIffPending ==
  /\ [](\A j \in JobIndexes :
          (db.jobCards[j].assignedMechanicId = Null) <=> (db.jobCards[j].status = "Pending"))
  /\ [][\A j \in JobIndexes :
          /\ db.jobCards[j].status # "Pending" => db'.jobCards[j].status # "Pending"
          /\ db.jobCards[j].assignedMechanicId # Null
               => db'.jobCards[j].assignedMechanicId # Null]_vars
  /\ [](\A j \in JobIndexes :
          db.jobCards[j].assignedMechanicId = Null =>
            \A tok \in MechanicTokens \cup {session}, st \in StatusInputs, now \in Times :
              LET r == UpdateStatus(db, tok, db.jobCards[j].id, st, now) IN
              r.code # 200 /\ r.db = db)

\* a mechanic has just moved their job card on while another job card is still
\* Pending and unassigned
C22_Witness ==
  /\ resp.op = "status" /\ resp.code = 200
  /\ Len(db.jobCards) = 2
  /\ \E j \in JobIndexes :
       db.jobCards[j].status = "Pending" /\ db.jobCards[j].assignedMechanicId = Null
  /\ \E j \in JobIndexes :
       /\ db.jobCards[j].status = "In Progress"
       /\ db.jobCards[j].assignedMechanicId = session.userId

\* part ids a log-part request may carry: stored, unknown, missing
PartIdInputs == PartIds \cup {"p9", Undefined}

\* quantity texts that are positive integers or that the validation refuses (the
\* texts read by their leading digits, 2.5 and "3abc", are the subject of C17)
PlainQuantityTexts ==
  {text \in QuantityTexts : PositiveInteger(text) \/ PartInputInvalid("p1", parseInt(text))}

\* the first failure of a log-part request in the order validation, job, assignee,
\* part, stock; <<200, MsgOK>> when there is none
FirstFailure(tok, id, partId, text) ==
  LET j == FindJob(db, id)
      p == FindPart(db, partId)
  IN
  IF Falsy(partId) \/ ~PositiveInteger(text) THEN <<400, MsgPartInput>>
  ELSE IF j = 0 THEN <<404, MsgJobNotFound>>
  ELSE IF db.jobCards[j].assignedMechanicId # tok.userId THEN <<403, MsgNotAssigned>>
  ELSE IF p = 0 THEN <<404, MsgPartNotFound>>
  ELSE IF db.parts[p].quantity < parseInt(text).n THEN <<400, MsgNoStock>>
  ELSE <<200, MsgOK>>

\* C23: a mechanic's log-part is answered with the first failure in the order:
\* missing part id or bad quantity (400), no such job card (404), job card not
\* assigned to the caller (403), no such part (404), too little stock (400); so
\* on an existing job card of another mechanic the answer is 403 also for an
\* unknown part and for a quantity above the stock. A refused request changes
\* nothing.
C23_LogPartCheckOrder ==
  \A tok \in MechanicTokens, id \in JobIdInputs, partId \in PartIdInputs,
     text \in PlainQuantityTexts :
    LET r == LogPart(db, tok, id, partId, text)
        j == FindJob(db, id)
    IN  /\ <<r.code, r.msg>> = FirstFailure(tok, id, partId, text)
        /\ r.code # 200 => r.db = db
        /\ ( /\ j # 0 /\ db.jobCards[j].assignedMechanicId # tok.userId
              /\ ~Falsy(partId) /\ PositiveInteger(text) )
            => r.code = 403

\* a mechanic has just been answered 403 on a job card of another mechanic, and
\* the same answer is given there for an unknown part and for more than the stock
C23_Witness ==
  /\ resp.op = "log-part" /\ resp.code = 403 /\ resp.msg = MsgNotAssigned
  /\ session.role = "mechanic"
  /\ \E j \in JobIndexes :
       /\ db.jobCards[j].assignedMechanicId \notin {Null, session.userId}
       /\ LogPart(db, session, db.jobCards[j].id, "p9", <<"1">>).code = 403
       /\ LogPart(db, session, db.jobCards[j].id, "p2", <<"2">>).code = 403
       /\ \E p \in PartIndexes : db.parts[p].id = "p2" /\ db.parts[p].quantity < 2

\* C24: no two stored users have the same username, also when register requests
\* interleave; and a register whose username is stored in the document the
\* handler read is answered with an error (409 when the body is otherwise
\* accepted) and adds no user.
C24_UsernamesUnique ==
  /\ \A u \in UserIndexes, v \in UserIndexes :
       u # v => db.users[u].username # db.users[v].username
  /\ \A body \in RegisterBodies :
       LET r == Register(db, session, body, randomUUID(uuidCount)) IN
       FindUserByName(db, body.username) # 0 =>
         /\ ~Wrote(r) /\ r.db = db
         /\ (session.role = "admin" /\ ~RegisterMissing(body) /\ ~RoleRefused(body.role))
              => r.code = 409 /\ r.msg = MsgUserExists

\* two register requests for the same username raced and both were answered 201:
\* one user of that name is stored, the later writer's
C24_Witness ==
  \E s \in Slots, t \in Slots :
    /\ Raced(s, t)
    /\ inflight[s].req.op = "register" /\ inflight[t].req.op = "register"
    /\ inflight[s].req.body.username = inflight[t].req.body.username
    /\ \A u \in UserIndexes : db.users[u].id # inflight[s].uuid
    /\ \E u \in UserIndexes :
         /\ db.users[u].id = inflight[t].uuid
         /\ db.users[u].username = inflight[t].req.body.username

\* C25: a stored job card whose status is Dispatched has a dispatchedDate; and a
\* dispatchedDate once set is never removed by a later step, so a job card that
\* was moved on from Dispatched, or assigned again, keeps it.
C25_DispatchedHasStamp ==
  /\ [](\A j \in JobIndexes :
          db.jobCards[j].status = "Dispatched" => db.jobCards[j].dispatchedDate # NoDate)
  /\ [][\A j \in JobIndexes :
          db.jobCards[j].dispatchedDate # NoDate => db'.jobCards[j].dispatchedDate # NoDate]_vars

\* the converse fails: a dispatched job card has just been assigned again to the
\* seeded mechanic; its status is Assigned and it still carries the stamp
C25_Witness ==
  /\ resp.op = "assign" /\ resp.code = 200
  /\ Len(db.jobCards) = 1
  /\ db.jobCards[1].status = "Assigned"
  /\ db.jobCards[1].assignedMechanicId = AdminId + 1
  /\ db.jobCards[1].dispatchedDate \in Times

====
